---- MODULE Spec2Model ----
(***************************************************************************)
(* The domain model of cogcms: the routes of server/routes.ts over the     *)
(* storage layer (DatabaseStorage).                                        *)
(*                                                                         *)
(* A request handler is a sequence of storage calls; every `await` of a    *)
(* storage call is one step (one SQL statement, atomic in the database).   *)
(* Spec runs each task handler to its end in one action (requests do not   *)
(* overlap); SpecConc interleaves the steps of two handlers; SpecFault     *)
(* lets the insert into activities fail; SpecProj, SpecBadge, SpecComment  *)
(* and SpecSearch cover projects and boards, badges, comments and the      *)
(* task search.                                                            *)
(***************************************************************************)
EXTENDS Integers, Sequences, FiniteSets, Bags, TLC

VARIABLES users, tasks, activities, credits, reqs, nreq,
          projects, boards, badges, userBadges, taskComments,
          clock, faults, found

tables == <<users, tasks, activities, credits, projects, boards, badges,
            userBadges, taskComments, clock, faults>>

vars == <<tables, reqs, nreq, found>>

(***************************************************************************)
(* Bounds and program constants                                            *)
(***************************************************************************)
MaxRequests == 4
MaxConcRequests == 2
MaxClock == 2
MaxSearches == 1

DefaultRewardPoints == 100
LevelSize == 100
HttpOk == 200
HttpServerError == 500
HttpForbidden == 403
HttpNotFound == 404
HttpBadRequest == 400

UserIds == {"u1", "u2"}
Actors == {"u1"}
TaskIds == {1, 2}
Slots == {"r1", "r2"}
NULL == "null"
taskStatusEnum == {"todo", "in_progress", "review", "done"}
userRoleEnum == {"super_admin", "admin", "project_manager", "member", "guest"}
RoleInputs == {"member", "admin"}
RewardInputs == {50}
LabelInputs == {<<"l1">>}
ReporterInputs == {"u2"}
ProjectIds == {"p1", "p2"}
BoardIds == {"b1", "b2", "b3"}
projectVisibilityEnum == {"public", "private"}
MainBoard == "Main Board"
BadgeIds == {"bd1", "bd2"}
CommentIds == {"c1", "c2"}
ContentInputs == {"first", "second"}
BadgeNameInputs == {"Gold", "Star"}
DefaultColumns == <<"todo", "in_progress", "review", "done">>

(***************************************************************************)
(* Optional values (`undefined` in the code) and partial objects           *)
(***************************************************************************)
None == <<>>
Some(x) == <<x>>
IsSome(m) == Len(m) > 0
Val(m) == m[1]

EmptyBody == [k \in {} |-> NULL]
Field(name, vals) == {EmptyBody} \cup {[k \in {name} |-> v] : v \in vals}
Has(body, name) == name \in DOMAIN body

\* { ...row, ...body }: the fields of body override those of row.
Merge(row, body) ==
    [k \in DOMAIN row |-> IF k \in DOMAIN body THEN body[k] ELSE row[k]]

(***************************************************************************)
(* The storage layer.  The world w holds the tables; a call returns the    *)
(* new world, whether the statement succeeded (ok = FALSE: it threw), and  *)
(* the row it returned, if any.                                            *)
(***************************************************************************)
World == [users |-> users, tasks |-> tasks, activities |-> activities,
          credits |-> credits, projects |-> projects, boards |-> boards,
          badges |-> badges, userBadges |-> userBadges,
          taskComments |-> taskComments, clock |-> clock, faults |-> faults]

Level(points) == (points \div LevelSize) + 1

NewUser == [points |-> 0, level |-> 1, role |-> "member"]

getUser(w, id) == IF id \in DOMAIN w.users THEN Some(w.users[id]) ELSE None

upsertUser(w, id) ==
    IF id \in DOMAIN w.users
    THEN w
    ELSE [w EXCEPT !.users = (id :> NewUser) @@ w.users]

\* updateUserPoints that writes the points and leaves the level as it was.
updateUserPoints_StaleLevel(w, userId, points) ==
    IF userId \in DOMAIN w.users
    THEN [w EXCEPT !.users[userId].points = points]
    ELSE w

updateUserPoints(w, userId, points) ==
    IF userId \in DOMAIN w.users
    THEN [w EXCEPT !.users[userId] =
              [@ EXCEPT !.points = points, !.level = Level(points)]]
    ELSE w

updateUserRole(w, userId, role) ==
    IF userId \in DOMAIN w.users
    THEN [w EXCEPT !.users[userId].role = role]
    ELSE w

getTask(w, id) == IF id \in DOMAIN w.tasks THEN Some(w.tasks[id]) ELSE None

\* TaskFKOk without the constraint on board_id.
TaskFKOk_NoBoard(w, body) ==
    /\ Has(body, "assigneeId") => body.assigneeId \in DOMAIN w.users \cup {NULL}
    /\ Has(body, "reporterId") => body.reporterId \in DOMAIN w.users

\* Foreign keys of a task row: assignee_id and reporter_id reference users,
\* board_id references boards.  The specifications that do not follow the
\* boards leave the board column out of the task rows.
TaskFKOk(w, body) ==
    /\ Has(body, "assigneeId") => body.assigneeId \in DOMAIN w.users \cup {NULL}
    /\ Has(body, "reporterId") => body.reporterId \in DOMAIN w.users
    /\ Has(body, "boardId") => body.boardId \in DOMAIN w.boards

NextTaskId(w) == CHOOSE id \in TaskIds \ DOMAIN w.tasks :
                    \A other \in TaskIds \ DOMAIN w.tasks : id <= other

TaskDefaults(id) ==
    [id |-> id, status |-> "todo", assigneeId |-> NULL,
     rewardPoints |-> DefaultRewardPoints, labels |-> <<>>, reporterId |-> NULL]

createTask(w, body) ==
    IF ~TaskFKOk(w, body)
    THEN [ok |-> FALSE, w |-> w, ret |-> None]
    ELSE LET id == NextTaskId(w)
             row == body @@ TaskDefaults(id)
         IN [ok |-> TRUE, w |-> [w EXCEPT !.tasks = (id :> row) @@ w.tasks],
             ret |-> Some(row)]

\* updateTask that refuses to take a task out of done.
updateTask_NoReopen(w, id, body) ==
    IF id \notin DOMAIN w.tasks
    THEN [ok |-> TRUE, w |-> w, ret |-> None]
    ELSE IF ~TaskFKOk(w, body)
            \/ (Has(body, "status") /\ w.tasks[id].status = "done"
                /\ body.status # "done")
    THEN [ok |-> FALSE, w |-> w, ret |-> None]
    ELSE LET row == Merge(w.tasks[id], body)
         IN [ok |-> TRUE, w |-> [w EXCEPT !.tasks[id] = row], ret |-> Some(row)]

updateTask(w, id, body) ==
    IF id \notin DOMAIN w.tasks
    THEN [ok |-> TRUE, w |-> w, ret |-> None]
    ELSE IF ~TaskFKOk(w, body)
    THEN [ok |-> FALSE, w |-> w, ret |-> None]
    ELSE LET row == Merge(w.tasks[id], body)
         IN [ok |-> TRUE, w |-> [w EXCEPT !.tasks[id] = row], ret |-> Some(row)]

\* The rows that reference task id: activities.task_id and
\* task_comments.task_id, both ON DELETE no action.
TaskReferenced(w, id) ==
    \/ \E a \in BagToSet(w.activities) : Has(a, "taskId") /\ a.taskId = id
    \/ \E c \in DOMAIN w.taskComments : w.taskComments[c].taskId = id

\* DELETE FROM tasks WHERE id = $1: refused while a row references the task.
deleteTask(w, id) ==
    IF TaskReferenced(w, id)
    THEN [ok |-> FALSE, w |-> w]
    ELSE [ok |-> TRUE,
          w |-> [w EXCEPT !.tasks = [t \in DOMAIN w.tasks \ {id} |-> w.tasks[t]]]]

\* Foreign keys of an activity row: user_id, and task_id and project_id
\* where the row carries them.
ActivityFKOk(w, a) ==
    /\ a.userId \in DOMAIN w.users
    /\ Has(a, "taskId") => a.taskId \in DOMAIN w.tasks
    /\ Has(a, "projectId") => a.projectId \in DOMAIN w.projects

\* createActivity that keeps only the row it inserts.
createActivity_Overwrite(w, a) ==
    IF "activities" \notin w.faults /\ ActivityFKOk(w, a)
    THEN [ok |-> TRUE, w |-> [w EXCEPT !.activities = SetToBag({a})]]
    ELSE [ok |-> FALSE, w |-> w]

\* An insert into a table named in w.faults throws (the statement does not
\* reach the database, or the database refuses it).
createActivity(w, a) ==
    IF "activities" \notin w.faults /\ ActivityFKOk(w, a)
    THEN [ok |-> TRUE, w |-> [w EXCEPT !.activities = @ (+) SetToBag({a})]]
    ELSE [ok |-> FALSE, w |-> w]

Activity(userId, type, taskId, metadata) ==
    [userId |-> userId, type |-> type, taskId |-> taskId, metadata |-> metadata]

\* Task dependencies are kept as activities of type dependency_created; the
\* row is inserted with the empty string as its user_id.
createTaskDependency(w, dependency) ==
    LET a == Activity("", "dependency_created", dependency.taskId,
                      [dependsOnTaskId |-> dependency.dependsOnTaskId])
        res == createActivity(w, a)
    IN [ok |-> res.ok, w |-> res.w,
        ret |-> IF res.ok
                THEN Some([taskId |-> dependency.taskId,
                           dependsOnTaskId |-> dependency.dependsOnTaskId])
                ELSE None]

getTaskDependencies(w, taskId) ==
    {[taskId |-> dep.taskId, dependsOnTaskId |-> dep.metadata.dependsOnTaskId] :
       dep \in {a \in BagToSet(w.activities) :
                  /\ a.type = "dependency_created"
                  /\ Has(a, "taskId")
                  /\ a.taskId = taskId}}

(***************************************************************************)
(* Projects and boards.  updatedAt is the clock's reading when the row was *)
(* last written.                                                           *)
(***************************************************************************)
NextProjectId(w) == CHOOSE id \in ProjectIds \ DOMAIN w.projects : TRUE

ProjectDefaults(w, id) ==
    [id |-> id, ownerId |-> NULL, visibility |-> "public", updatedAt |-> w.clock]

createProject(w, body) ==
    IF "projects" \in w.faults \/ body.ownerId \notin DOMAIN w.users
    THEN [ok |-> FALSE, w |-> w, ret |-> None]
    ELSE LET id == NextProjectId(w)
             row == Merge(ProjectDefaults(w, id), body)
         IN [ok |-> TRUE, w |-> [w EXCEPT !.projects = (id :> row) @@ w.projects],
             ret |-> Some(row)]

getProject(w, id) ==
    IF id \in DOMAIN w.projects THEN Some(w.projects[id]) ELSE None

updateProject(w, id, body) ==
    IF id \notin DOMAIN w.projects
    THEN [ok |-> TRUE, w |-> w, ret |-> None]
    ELSE LET row == Merge(w.projects[id], body @@ [updatedAt |-> w.clock])
         IN [ok |-> TRUE, w |-> [w EXCEPT !.projects[id] = row], ret |-> Some(row)]

\* The rows that reference project id: boards.project_id and
\* activities.project_id, both ON DELETE no action.
ProjectReferenced(w, id) ==
    \/ \E b \in DOMAIN w.boards : w.boards[b].projectId = id
    \/ \E a \in BagToSet(w.activities) : Has(a, "projectId") /\ a.projectId = id

deleteProject(w, id) ==
    IF ProjectReferenced(w, id)
    THEN [ok |-> FALSE, w |-> w]
    ELSE [ok |-> TRUE,
          w |-> [w EXCEPT !.projects =
                    [p \in DOMAIN w.projects \ {id} |-> w.projects[p]]]]

NextBoardId(w) == CHOOSE id \in BoardIds \ DOMAIN w.boards : TRUE

BoardDefaults(id) ==
    [id |-> id, name |-> NULL, projectId |-> NULL, columns |-> DefaultColumns]

createBoard(w, body) ==
    IF "boards" \in w.faults \/ body.projectId \notin DOMAIN w.projects
    THEN [ok |-> FALSE, w |-> w, ret |-> None]
    ELSE LET id == NextBoardId(w)
             row == Merge(BoardDefaults(id), body)
         IN [ok |-> TRUE, w |-> [w EXCEPT !.boards = (id :> row) @@ w.boards],
             ret |-> Some(row)]

getBoardsByProject(w, projectId) ==
    {b \in DOMAIN w.boards : w.boards[b].projectId = projectId}

\* ORDER BY updated_at DESC over a set of rows: every arrangement of the
\* rows in which no row precedes one updated later (rows with equal
\* updatedAt come in any order).
OrderByUpdatedAtDesc(rows) ==
    {s \in [1..Cardinality(rows) -> rows] :
        /\ \A i, j \in DOMAIN s : i # j => s[i] # s[j]
        /\ \A i, j \in DOMAIN s : i < j => s[i].updatedAt >= s[j].updatedAt}

\* getProjects without the visibility clause.
getProjects_OwnedOnly(w, userId) ==
    OrderByUpdatedAtDesc({w.projects[p] : p \in
                    {q \in DOMAIN w.projects : w.projects[q].ownerId = userId}})

getProjects(w, userId) ==
    OrderByUpdatedAtDesc({w.projects[p] : p \in
                    {q \in DOMAIN w.projects :
                        \/ w.projects[q].ownerId = userId
                        \/ w.projects[q].visibility = "public"}})

(***************************************************************************)
(* The task search.  A text is a sequence of characters.                   *)
(***************************************************************************)
\* text LIKE pattern: % matches any run of characters, _ any one character.
RECURSIVE Like(_, _)
Like(text, pattern) ==
    IF pattern = <<>> THEN text = <<>>
    ELSE IF Head(pattern) = "%"
    THEN Like(text, Tail(pattern)) \/ (text # <<>> /\ Like(Tail(text), pattern))
    ELSE /\ text # <<>>
         /\ Head(pattern) = "_" \/ Head(pattern) = Head(text)
         /\ Like(Tail(text), Tail(pattern))

\* `%${params.query}%`
Wrap(query) == <<"%">> \o query \o <<"%">>

\* The filters a search applies: the parameters that are present and truthy.
Supplied(params, name) ==
    /\ Has(params, name)
    /\ IF name = "query" THEN params[name] # <<>> ELSE params[name] # ""

EqFilters == {"assigneeId", "reporterId", "status", "priority", "type"}

\* and(...conditions)
Conditions(row, params) ==
    /\ Supplied(params, "query")
         => \/ Like(row.title, Wrap(params.query))
            \/ IsSome(row.description)
                 /\ Like(Val(row.description), Wrap(params.query))
    /\ \A f \in EqFilters : Supplied(params, f) => row[f] = params[f]

\* .limit(limit).offset(offset) over an ordered result.
Page(s, limit, offset) ==
    SubSeq(s, offset + 1, IF offset + limit < Len(s) THEN offset + limit ELSE Len(s))

\* searchTasks that ignores projectId.
searchTasks_NoJoin(w, params) ==
    LET rows == {w.tasks[t] : t \in
                    {u \in DOMAIN w.tasks : Conditions(w.tasks[u], params)}}
    IN {Page(s, params.limit, params.offset) :
          s \in OrderByUpdatedAtDesc(rows)}

\* With projectId the tasks are joined with their boards and the board's
\* project is compared; the answers are the pages of every ordering the
\* ORDER BY allows.
searchTasks(w, params) ==
    LET joined == IF Supplied(params, "projectId")
                  THEN {t \in DOMAIN w.tasks :
                          /\ w.tasks[t].boardId \in DOMAIN w.boards
                          /\ w.boards[w.tasks[t].boardId].projectId
                               = params.projectId}
                  ELSE DOMAIN w.tasks
        rows == {w.tasks[t] : t \in
                    {u \in joined : Conditions(w.tasks[u], params)}}
    IN {Page(s, params.limit, params.offset) :
          s \in OrderByUpdatedAtDesc(rows)}

(***************************************************************************)
(* Badges and the badges awarded to users                                  *)
(***************************************************************************)
NextBadgeId(w) == CHOOSE id \in BadgeIds \ DOMAIN w.badges : TRUE

BadgeDefaults(id) ==
    [id |-> id, name |-> NULL, pointsRequired |-> None, isActive |-> TRUE]

createBadge(w, body) ==
    LET id == NextBadgeId(w)
        row == Merge(BadgeDefaults(id), body)
    IN [ok |-> TRUE, w |-> [w EXCEPT !.badges = (id :> row) @@ w.badges],
        ret |-> Some(row)]

updateBadge(w, id, body) ==
    IF id \in DOMAIN w.badges
    THEN [w EXCEPT !.badges[id] = Merge(@, body)]
    ELSE w

\* deleteBadge as a DELETE of the row.
deleteBadge_RemoveRow(w, id) ==
    [w EXCEPT !.badges = [b \in DOMAIN w.badges \ {id} |-> w.badges[b]]]

\* UPDATE badges SET is_active = false WHERE id = $1
deleteBadge(w, id) ==
    IF id \in DOMAIN w.badges
    THEN [w EXCEPT !.badges[id].isActive = FALSE]
    ELSE w

\* The active badges (the code orders them by name).
getBadges(w) == {w.badges[b] : b \in {c \in DOMAIN w.badges : w.badges[c].isActive}}

getBadge(w, id) == IF id \in DOMAIN w.badges THEN Some(w.badges[id]) ELSE None

UserBadge(userId, badgeId) == [userId |-> userId, badgeId |-> badgeId]

awardBadge(w, userId, badgeId) ==
    IF userId \in DOMAIN w.users /\ badgeId \in DOMAIN w.badges
    THEN [ok |-> TRUE,
          w |-> [w EXCEPT !.userBadges = @ (+) SetToBag({UserBadge(userId, badgeId)})]]
    ELSE [ok |-> FALSE, w |-> w]

\* user_badges INNER JOIN badges ON badge_id = badges.id WHERE user_id = $1:
\* each award of the user with the row of its badge (the code orders them by
\* earnedAt).
getUserBadges(w, userId) ==
    LET mine == {ub \in BagToSet(w.userBadges) :
                    ub.userId = userId /\ ub.badgeId \in DOMAIN w.badges}
    IN [j \in {[userId |-> ub.userId, badgeId |-> ub.badgeId,
                badge |-> w.badges[ub.badgeId]] : ub \in mine}
          |-> w.userBadges[UserBadge(j.userId, j.badgeId)]]

(***************************************************************************)
(* Task comments                                                           *)
(***************************************************************************)
NextCommentId(w) == CHOOSE id \in CommentIds \ DOMAIN w.taskComments : TRUE

getTaskComment(w, id) ==
    IF id \in DOMAIN w.taskComments THEN Some(w.taskComments[id]) ELSE None

createTaskComment(w, comment) ==
    IF comment.taskId \in DOMAIN w.tasks /\ comment.userId \in DOMAIN w.users
    THEN LET id == NextCommentId(w)
             row == [id |-> id] @@ comment
         IN [ok |-> TRUE,
             w |-> [w EXCEPT !.taskComments = (id :> row) @@ w.taskComments],
             ret |-> Some(row)]
    ELSE [ok |-> FALSE, w |-> w, ret |-> None]

updateTaskComment(w, id, comment) ==
    IF id \in DOMAIN w.taskComments
    THEN [w EXCEPT !.taskComments[id].content = comment.content]
    ELSE w

deleteTaskComment(w, id) ==
    [w EXCEPT !.taskComments =
        [c \in DOMAIN w.taskComments \ {id} |-> w.taskComments[c]]]

(***************************************************************************)
(* Request handlers.  A request r carries its inputs (kind, actor, id,     *)
(* body), its position pc, the handler's locals (oldTask, task, newPoints) *)
(* and its response code (0 while it runs).  logged, loggedAsActor count   *)
(* the activity rows the request has inserted; startTask is the row of     *)
(* its task when it began.                                                 *)
(***************************************************************************)
Idle == [pc |-> "idle"]

FirstPc(kind) ==
    CASE kind = "create" -> "createTask"
      [] kind = "update" -> "getTask"
      [] kind = "transition" -> "getTask"
      [] kind = "assign" -> "updateTask"
      [] kind = "labels" -> "updateTask"
      [] kind = "role" -> "requireRole"
      [] kind = "deleteTask" -> "deleteTask"
      [] kind = "createComment" -> "createTaskComment"
      [] kind = "editComment" -> "getTaskComment"
      [] kind = "deleteComment" -> "getTaskComment"
      [] kind = "createBadge" -> "requireRole"
      [] kind = "awardBadge" -> "requireRole"
      [] kind = "createProject" -> "createProject"
      [] kind = "updateProject" -> "updateProject"
      [] kind = "deleteProject" -> "deleteProject"
      [] kind = "createBoard" -> "createBoard"
      [] kind = "createDependency" -> "createTaskDependency"

TaskKinds == {"create", "update", "transition", "assign", "labels", "deleteTask"}

NewReq(w, kind, actor, id, body) ==
    [kind |-> kind, actor |-> actor, id |-> id, body |-> body,
     pc |-> FirstPc(kind), oldTask |-> None, task |-> None, comment |-> None,
     newPoints |-> 0,
     code |-> 0, logged |-> 0, loggedAsActor |-> 0,
     startTask |-> IF kind \in TaskKinds THEN getTask(w, id) ELSE None]

Respond(r, code) == [r EXCEPT !.pc = "done", !.code = code]

\* oldTask?.status !== 'done'
OldNotDone(r) == ~IsSome(r.oldTask) \/ Val(r.oldTask).status # "done"

\* The transition's award condition without the comparison with the old status.
AwardDueTransition_NoOldCheck(r) ==
    /\ r.body.status = "done"
    /\ Val(r.task).assigneeId # NULL

\* PUT /api/tasks/:id/transition: the award condition tests the request's status.
AwardDueTransition(r) ==
    /\ OldNotDone(r)
    /\ r.body.status = "done"
    /\ Val(r.task).assigneeId # NULL

\* The generic update's award condition without the comparison with the old
\* status.
AwardDueUpdate_NoOldCheck(r) ==
    /\ Val(r.task).status = "done"
    /\ Val(r.task).assigneeId # NULL

\* PUT /api/tasks/:id: the award condition tests the updated row's status.
AwardDueUpdate(r) ==
    /\ OldNotDone(r)
    /\ Val(r.task).status = "done"
    /\ Val(r.task).assigneeId # NULL

StepCreateTask(w, r) ==
    LET res == createTask(w, r.body)
    IN IF res.ok
       THEN [w |-> res.w, r |-> [r EXCEPT !.task = res.ret, !.pc = "logCreated"]]
       ELSE [w |-> w, r |-> Respond(r, HttpServerError)]

\* The handler behind requireRole.
AfterRequireRole(kind) ==
    CASE kind = "role" -> "updateUserRole"
      [] kind = "createBadge" -> "createBadge"
      [] kind = "awardBadge" -> "awardBadge"

\* requireRole that lets every registered user pass.
StepRequireRole_AnyUser(w, r) ==
    LET user == getUser(w, r.actor)
    IN IF IsSome(user)
       THEN [w |-> w, r |-> [r EXCEPT !.pc = AfterRequireRole(r.kind)]]
       ELSE [w |-> w, r |-> Respond(r, HttpForbidden)]

\* requireRole(['admin', 'super_admin']) reads the actor's stored role.
StepRequireRole(w, r) ==
    LET user == getUser(w, r.actor)
    IN IF IsSome(user) /\ Val(user).role \in {"admin", "super_admin"}
       THEN [w |-> w, r |-> [r EXCEPT !.pc = AfterRequireRole(r.kind)]]
       ELSE [w |-> w, r |-> Respond(r, HttpForbidden)]

\* PUT /api/admin/users/:userId/role; r.id is the :userId parameter.
StepUpdateUserRole(w, r) ==
    [w |-> updateUserRole(w, r.id, r.body.role), r |-> Respond(r, HttpOk)]

StepGetTask(w, r) ==
    [w |-> w, r |-> [r EXCEPT !.oldTask = getTask(w, r.id), !.pc = "updateTask"]]

\* AfterUpdateTask whose assignment of a done task goes on to the award.
AfterUpdateTask_AssignAwards(r) ==
    CASE r.kind = "transition" ->
           IF IsSome(r.task) THEN [r EXCEPT !.pc = "logStatus"]
           ELSE Respond(r, HttpServerError)
      [] r.kind = "update" ->
           IF ~IsSome(r.task) THEN Respond(r, HttpServerError)
           ELSE IF AwardDueUpdate(r) THEN [r EXCEPT !.pc = "getUser"]
           ELSE Respond(r, HttpOk)
      [] r.kind = "assign" ->
           IF r.body.assigneeId = NULL THEN Respond(r, HttpOk)
           ELSE IF ~IsSome(r.task) THEN Respond(r, HttpServerError)
           ELSE IF Val(r.task).status = "done" THEN [r EXCEPT !.pc = "getUser"]
           ELSE [r EXCEPT !.pc = "logAssigned"]
      [] r.kind = "labels" ->
           IF IsSome(r.task) THEN [r EXCEPT !.pc = "logLabels"]
           ELSE Respond(r, HttpServerError)

\* After updateTask a handler reads a field of the returned row (task.id,
\* task.status, task.title); on a missing row that read throws.
AfterUpdateTask(r) ==
    CASE r.kind = "transition" ->
           IF IsSome(r.task) THEN [r EXCEPT !.pc = "logStatus"]
           ELSE Respond(r, HttpServerError)
      [] r.kind = "update" ->
           IF ~IsSome(r.task) THEN Respond(r, HttpServerError)
           ELSE IF AwardDueUpdate(r) THEN [r EXCEPT !.pc = "getUser"]
           ELSE Respond(r, HttpOk)
      [] r.kind = "assign" ->
           IF r.body.assigneeId = NULL THEN Respond(r, HttpOk)
           ELSE IF IsSome(r.task) THEN [r EXCEPT !.pc = "logAssigned"]
           ELSE Respond(r, HttpServerError)
      [] r.kind = "labels" ->
           IF IsSome(r.task) THEN [r EXCEPT !.pc = "logLabels"]
           ELSE Respond(r, HttpServerError)

StepUpdateTask(w, r) ==
    LET res == updateTask(w, r.id, r.body)
    IN IF res.ok
       THEN [w |-> res.w, r |-> AfterUpdateTask([r EXCEPT !.task = res.ret])]
       ELSE [w |-> w, r |-> Respond(r, HttpServerError)]

\* LogType with another tag for the completion row.
LogType_WrongTag(pc) ==
    CASE pc = "logCreated" -> "task_created"
      [] pc = "logStatus" -> "status_changed"
      [] pc = "logAssigned" -> "task_assigned"
      [] pc = "logLabels" -> "labels_updated"
      [] pc = "logCompleted" -> "task_done"

LogType(pc) ==
    CASE pc = "logCreated" -> "task_created"
      [] pc = "logStatus" -> "status_changed"
      [] pc = "logAssigned" -> "task_assigned"
      [] pc = "logLabels" -> "labels_updated"
      [] pc = "logCompleted" -> "task_completed"

\* The task_completed row is written in the assignee's name, the others in
\* the actor's.
LogUser(r) ==
    IF r.pc = "logCompleted" THEN Val(r.task).assigneeId ELSE r.actor

\* oldTask?.status
OldStatus(r) == IF IsSome(r.oldTask) THEN Val(r.oldTask).status ELSE "undefined"

LogMetadata(r) ==
    CASE r.pc = "logCreated" -> EmptyBody
      [] r.pc = "logStatus" ->
           [oldStatus |-> OldStatus(r), newStatus |-> r.body.status]
      [] r.pc = "logAssigned" -> [assigneeId |-> r.body.assigneeId]
      [] r.pc = "logLabels" -> [labels |-> r.body.labels]
      [] r.pc = "logCompleted" -> [pointsEarned |-> Val(r.task).rewardPoints]

\* StepLog that goes on to the award after logging the assignment of a task
\* that is done.
StepLog_AwardOnAssign(w, r) ==
    LET a == Activity(LogUser(r), LogType(r.pc), Val(r.task).id, LogMetadata(r))
        res == createActivity(w, a)
        r2 == [r EXCEPT !.logged = @ + 1,
                        !.loggedAsActor = @ + (IF a.userId = r.actor THEN 1 ELSE 0)]
    IN IF ~res.ok
       THEN [w |-> w, r |-> Respond(r, HttpServerError)]
       ELSE IF \/ r.pc = "logStatus" /\ AwardDueTransition(r)
               \/ r.pc = "logAssigned" /\ Val(r.task).status = "done"
       THEN [w |-> res.w, r |-> [r2 EXCEPT !.pc = "getUser"]]
       ELSE [w |-> res.w, r |-> Respond(r2, HttpOk)]

StepLog(w, r) ==
    LET a == Activity(LogUser(r), LogType(r.pc), Val(r.task).id, LogMetadata(r))
        res == createActivity(w, a)
        r2 == [r EXCEPT !.logged = @ + 1,
                        !.loggedAsActor = @ + (IF a.userId = r.actor THEN 1 ELSE 0)]
    IN IF ~res.ok
       THEN [w |-> w, r |-> Respond(r, HttpServerError)]
       ELSE IF r.pc = "logStatus" /\ AwardDueTransition(r)
       THEN [w |-> res.w, r |-> [r2 EXCEPT !.pc = "getUser"]]
       ELSE [w |-> res.w, r |-> Respond(r2, HttpOk)]

\* StepGetUser that takes the reward alone as the new total.
StepGetUser_Overwrite(w, r) ==
    LET assignee == getUser(w, Val(r.task).assigneeId)
    IN IF IsSome(assignee)
       THEN [w |-> w,
             r |-> [r EXCEPT !.newPoints = Val(r.task).rewardPoints,
                             !.pc = "updateUserPoints"]]
       ELSE [w |-> w, r |-> Respond(r, HttpOk)]

StepGetUser(w, r) ==
    LET assignee == getUser(w, Val(r.task).assigneeId)
    IN IF IsSome(assignee)
       THEN [w |-> w,
             r |-> [r EXCEPT !.newPoints =
                                Val(assignee).points + Val(r.task).rewardPoints,
                             !.pc = "updateUserPoints"]]
       ELSE [w |-> w, r |-> Respond(r, HttpOk)]

Credit(taskId, userId, amount) ==
    [taskId |-> taskId, userId |-> userId, amount |-> amount]

\* StepUpdateUserPoints that also awards every active badge whose
\* pointsRequired the new total reaches.
StepUpdateUserPoints_AutoBadge(w, r) ==
    LET t == Val(r.task)
        w2 == updateUserPoints(w, t.assigneeId, r.newPoints)
        earned == {b \in DOMAIN w.badges :
                     /\ w.badges[b].isActive
                     /\ IsSome(w.badges[b].pointsRequired)
                     /\ Val(w.badges[b].pointsRequired) <= r.newPoints}
    IN [w |-> [w2 EXCEPT !.credits =
                   @ (+) SetToBag({Credit(t.id, t.assigneeId, t.rewardPoints)}),
                         !.userBadges =
                   @ (+) SetToBag({UserBadge(t.assigneeId, b) : b \in earned})],
        r |-> [r EXCEPT !.pc = "logCompleted"]]

StepUpdateUserPoints(w, r) ==
    LET t == Val(r.task)
        w2 == updateUserPoints(w, t.assigneeId, r.newPoints)
    IN [w |-> [w2 EXCEPT !.credits =
                   @ (+) SetToBag({Credit(t.id, t.assigneeId, t.rewardPoints)})],
        r |-> [r EXCEPT !.pc = "logCompleted"]]

\* POST /api/projects: the project, then its default board, then the
\* activity, each in a statement of its own; a statement that throws ends
\* the handler with 500 and leaves the earlier ones in place.
StepCreateProject(w, r) ==
    LET res == createProject(w, r.body)
    IN IF res.ok
       THEN [w |-> res.w, r |-> [r EXCEPT !.task = res.ret, !.pc = "createBoard"]]
       ELSE [w |-> w, r |-> Respond(r, HttpServerError)]

\* createBoard of POST /api/projects (the default board of the project just
\* inserted) and of POST /api/projects/:projectId/boards (r.id is :projectId).
StepCreateBoard(w, r) ==
    LET body == IF r.kind = "createProject"
                THEN [name |-> MainBoard, projectId |-> Val(r.task).id]
                ELSE r.body @@ [projectId |-> r.id]
        res == createBoard(w, body)
    IN IF ~res.ok
       THEN [w |-> w, r |-> Respond(r, HttpServerError)]
       ELSE IF r.kind = "createProject"
       THEN [w |-> res.w, r |-> [r EXCEPT !.pc = "logProject"]]
       ELSE [w |-> res.w, r |-> Respond(r, HttpOk)]

StepLogProject(w, r) ==
    LET a == [userId |-> r.actor, type |-> "project_created",
              projectId |-> Val(r.task).id, metadata |-> EmptyBody]
        res == createActivity(w, a)
    IN IF res.ok
       THEN [w |-> res.w, r |-> Respond([r EXCEPT !.logged = @ + 1,
                                                  !.loggedAsActor = @ + 1], HttpOk)]
       ELSE [w |-> w, r |-> Respond(r, HttpServerError)]

\* PUT /api/projects/:id answers with whatever updateProject returned.
StepUpdateProject(w, r) ==
    [w |-> updateProject(w, r.id, r.body).w, r |-> Respond(r, HttpOk)]

\* POST /api/badges
StepCreateBadge(w, r) ==
    [w |-> createBadge(w, r.body).w, r |-> Respond(r, HttpOk)]

\* POST /api/users/:userId/badges/:badgeId; r.id is :userId, r.body.badgeId
\* is :badgeId.
StepAwardBadge(w, r) ==
    LET res == awardBadge(w, r.id, r.body.badgeId)
    IN IF res.ok
       THEN [w |-> res.w, r |-> [r EXCEPT !.pc = "logBadge"]]
       ELSE [w |-> w, r |-> Respond(r, HttpServerError)]

StepLogBadge(w, r) ==
    LET a == [userId |-> r.id, type |-> "badge_earned",
              metadata |-> [badgeId |-> r.body.badgeId]]
        res == createActivity(w, a)
    IN IF res.ok
       THEN [w |-> res.w, r |-> Respond([r EXCEPT !.logged = @ + 1], HttpOk)]
       ELSE [w |-> w, r |-> Respond(r, HttpServerError)]

\* POST /api/tasks/:taskId/comments; r.body.taskId is :taskId.
StepCreateTaskComment(w, r) ==
    LET res == createTaskComment(w, [taskId |-> r.body.taskId, userId |-> r.actor,
                                     content |-> r.body.content])
    IN IF res.ok
       THEN [w |-> res.w, r |-> [r EXCEPT !.comment = res.ret, !.pc = "logComment"]]
       ELSE [w |-> w, r |-> Respond(r, HttpServerError)]

StepLogComment(w, r) ==
    LET a == Activity(r.actor, "comment_added", r.body.taskId,
                      [commentId |-> Val(r.comment).id])
        res == createActivity(w, a)
    IN IF res.ok
       THEN [w |-> res.w, r |-> Respond([r EXCEPT !.logged = @ + 1,
                                                  !.loggedAsActor = @ + 1], HttpOk)]
       ELSE [w |-> w, r |-> Respond(r, HttpServerError)]

\* StepGetTaskComment without the comparison of the author with the actor.
StepGetTaskComment_NoAuthorCheck(w, r) ==
    LET comment == getTaskComment(w, r.id)
    IN IF ~IsSome(comment)
       THEN [w |-> w, r |-> Respond(r, HttpNotFound)]
       ELSE [w |-> w,
             r |-> [r EXCEPT !.comment = comment,
                             !.pc = IF r.kind = "editComment"
                                    THEN "updateTaskComment"
                                    ELSE "deleteTaskComment"]]

\* PUT and DELETE /api/comments/:id begin alike: the comment is read, a
\* missing one is answered 404, another user's 403.
StepGetTaskComment(w, r) ==
    LET comment == getTaskComment(w, r.id)
    IN IF ~IsSome(comment)
       THEN [w |-> w, r |-> Respond(r, HttpNotFound)]
       ELSE IF Val(comment).userId # r.actor
       THEN [w |-> w, r |-> Respond(r, HttpForbidden)]
       ELSE [w |-> w,
             r |-> [r EXCEPT !.comment = comment,
                             !.pc = IF r.kind = "editComment"
                                    THEN "updateTaskComment"
                                    ELSE "deleteTaskComment"]]

StepUpdateTaskComment(w, r) ==
    [w |-> updateTaskComment(w, r.id, r.body), r |-> Respond(r, HttpOk)]

StepDeleteTaskComment(w, r) ==
    [w |-> deleteTaskComment(w, r.id), r |-> Respond(r, HttpOk)]

StepDeleteTask(w, r) ==
    LET res == deleteTask(w, r.id)
    IN [w |-> res.w,
        r |-> Respond(r, IF res.ok THEN HttpOk ELSE HttpServerError)]

StepDeleteProject(w, r) ==
    LET res == deleteProject(w, r.id)
    IN [w |-> res.w,
        r |-> Respond(r, IF res.ok THEN HttpOk ELSE HttpServerError)]

\* POST /api/tasks/:id/dependencies.
StepCreateTaskDependency(w, r) ==
    IF ~Has(r.body, "dependsOnTaskId")
    THEN [w |-> w, r |-> Respond(r, HttpBadRequest)]
    ELSE LET res == createTaskDependency(w, [taskId |-> r.id,
                        dependsOnTaskId |-> r.body.dependsOnTaskId])
         IN [w |-> res.w,
             r |-> Respond(r, IF res.ok THEN HttpOk ELSE HttpServerError)]

Step(w, r) ==
    CASE r.pc = "createTask" -> StepCreateTask(w, r)
      [] r.pc = "createTaskDependency" -> StepCreateTaskDependency(w, r)
      [] r.pc = "deleteTask" -> StepDeleteTask(w, r)
      [] r.pc = "createTaskComment" -> StepCreateTaskComment(w, r)
      [] r.pc = "logComment" -> StepLogComment(w, r)
      [] r.pc = "getTaskComment" -> StepGetTaskComment(w, r)
      [] r.pc = "updateTaskComment" -> StepUpdateTaskComment(w, r)
      [] r.pc = "deleteTaskComment" -> StepDeleteTaskComment(w, r)
      [] r.pc = "createBadge" -> StepCreateBadge(w, r)
      [] r.pc = "awardBadge" -> StepAwardBadge(w, r)
      [] r.pc = "logBadge" -> StepLogBadge(w, r)
      [] r.pc = "createProject" -> StepCreateProject(w, r)
      [] r.pc = "createBoard" -> StepCreateBoard(w, r)
      [] r.pc = "logProject" -> StepLogProject(w, r)
      [] r.pc = "updateProject" -> StepUpdateProject(w, r)
      [] r.pc = "deleteProject" -> StepDeleteProject(w, r)
      [] r.pc = "getTask" -> StepGetTask(w, r)
      [] r.pc = "requireRole" -> StepRequireRole(w, r)
      [] r.pc = "updateUserRole" -> StepUpdateUserRole(w, r)
      [] r.pc = "updateTask" -> StepUpdateTask(w, r)
      [] r.pc = "getUser" -> StepGetUser(w, r)
      [] r.pc = "updateUserPoints" -> StepUpdateUserPoints(w, r)
      [] OTHER -> StepLog(w, r)

RECURSIVE Run(_, _)
Run(w, r) ==
    IF r.pc = "done"
    THEN [w |-> w, r |-> r]
    ELSE LET s == Step(w, r) IN Run(s.w, s.r)

(***************************************************************************)
(* Request inputs                                                          *)
(***************************************************************************)
CreateBodies ==
    {a @@ p : a \in Field("assigneeId", UserIds),
              p \in Field("rewardPoints", RewardInputs)}

\* insertTaskSchema.partial() keeps every column but id, createdAt and
\* updatedAt: status, assigneeId and rewardPoints in any combination, or
\* reporterId.
UpdateBodies ==
    {s @@ a @@ p : s \in Field("status", taskStatusEnum),
                   a \in Field("assigneeId", UserIds \cup {NULL}),
                   p \in Field("rewardPoints", RewardInputs)}
    \cup {[reporterId |-> u] : u \in ReporterInputs}

\* POST /api/boards/:boardId/tasks has no :id; the request records the id
\* the insert will generate.  The id space is exhausted when TaskIds is.
CreateRequests(w) ==
    IF TaskIds \ DOMAIN w.tasks = {}
    THEN {}
    ELSE {NewReq(w, "create", actor, NextTaskId(w), b @@ [reporterId |-> actor]) :
            actor \in Actors, b \in CreateBodies}

Requests(w) ==
    CreateRequests(w)
    \cup {NewReq(w, "update", actor, id, b) :
        actor \in Actors, id \in TaskIds, b \in UpdateBodies}
    \cup {NewReq(w, "transition", actor, id, [status |-> s]) :
        actor \in Actors, id \in TaskIds, s \in taskStatusEnum}
    \cup {NewReq(w, "assign", actor, id, [assigneeId |-> a]) :
        actor \in Actors, id \in TaskIds, a \in UserIds \cup {NULL}}
    \cup {NewReq(w, "labels", actor, id, [labels |-> l]) :
        actor \in Actors, id \in TaskIds, l \in LabelInputs}
    \cup {NewReq(w, "role", actor, u, [role |-> role]) :
        actor \in Actors, u \in UserIds, role \in RoleInputs}
    \cup {NewReq(w, "deleteTask", actor, id, EmptyBody) :
        actor \in Actors, id \in TaskIds}

(***************************************************************************)
(* Spec: requests run one at a time, each handler to its end.              *)
(***************************************************************************)
\* No project, board, badge or comment yet; every statement reaches the
\* database; no query has run.
InitEmpty ==
    /\ projects = [p \in {} |-> NULL]
    /\ boards = [b \in {} |-> NULL]
    /\ badges = [b \in {} |-> NULL]
    /\ userBadges = EmptyBag
    /\ taskComments = [c \in {} |-> NULL]
    /\ clock = 0
    /\ faults = {}
    /\ found = <<>>

\* The acting user is registered and is the deployment's administrator.
SeedAdmin == [NewUser EXCEPT !.role = "admin"]

Init ==
    /\ users = [u \in Actors |-> SeedAdmin]
    /\ tasks = [t \in {} |-> TaskDefaults(t)]
    /\ activities = EmptyBag
    /\ credits = EmptyBag
    /\ reqs = [s \in Slots |-> Idle]
    /\ nreq = 0
    /\ InitEmpty

SetWorld(w) ==
    /\ users' = w.users
    /\ tasks' = w.tasks
    /\ activities' = w.activities
    /\ credits' = w.credits
    /\ projects' = w.projects
    /\ boards' = w.boards
    /\ badges' = w.badges
    /\ userBadges' = w.userBadges
    /\ taskComments' = w.taskComments
    /\ clock' = w.clock
    /\ faults' = w.faults

UpsertUser ==
    \E u \in UserIds :
        /\ SetWorld(upsertUser(World, u))
        /\ UNCHANGED <<reqs, nreq, found>>

\* One request, run from its first storage call to its response.
Handle(r) ==
    /\ nreq < MaxRequests
    /\ SetWorld(Run(World, r).w)
    /\ nreq' = nreq + 1
    /\ UNCHANGED <<reqs, found>>

CreateTaskReq == \E r \in Requests(World) : r.kind = "create" /\ Handle(r)

UpdateTaskReq == \E r \in Requests(World) : r.kind = "update" /\ Handle(r)

TransitionReq == \E r \in Requests(World) : r.kind = "transition" /\ Handle(r)

AssignReq == \E r \in Requests(World) : r.kind = "assign" /\ Handle(r)

LabelsReq == \E r \in Requests(World) : r.kind = "labels" /\ Handle(r)

UpdateUserRoleReq == \E r \in Requests(World) : r.kind = "role" /\ Handle(r)

DeleteTaskReq == \E r \in Requests(World) : r.kind = "deleteTask" /\ Handle(r)

Next ==
    \/ UpsertUser
    \/ CreateTaskReq
    \/ UpdateTaskReq
    \/ TransitionReq
    \/ AssignReq
    \/ LabelsReq
    \/ UpdateUserRoleReq
    \/ DeleteTaskReq

Spec == Init /\ [][Next]_vars

(***************************************************************************)
(* SpecConc: the steps of up to two handlers interleave.  It starts from   *)
(* a database Spec reaches by creating two tasks: both users registered,   *)
(* task 1 with the default reward, task 2 with a reward of 50, each        *)
(* assigned to a user or to nobody.                                        *)
(***************************************************************************)
ConcStatusInputs == {"todo", "done"}

ConcRequests(w) ==
    {r \in Requests(w) :
        \/ r.kind = "assign"
        \/ /\ r.kind \in {"transition", "update"}
           /\ DOMAIN r.body = {"status"}
           /\ r.body.status \in ConcStatusInputs}

SeedTask(id, assigneeId) ==
    Merge(TaskDefaults(id),
          [assigneeId |-> assigneeId, reporterId |-> "u1",
           rewardPoints |-> IF id = 1 THEN DefaultRewardPoints
                            ELSE CHOOSE p \in RewardInputs : TRUE])

InitConc ==
    /\ users = [u \in UserIds |-> IF u \in Actors THEN SeedAdmin ELSE NewUser]
    /\ \E a \in [TaskIds -> UserIds \cup {NULL}] :
          tasks = [t \in TaskIds |-> SeedTask(t, a[t])]
    /\ activities =
          SetToBag({Activity("u1", "task_created", t, EmptyBody) : t \in TaskIds})
    /\ credits = EmptyBag
    /\ reqs = [s \in Slots |-> Idle]
    /\ nreq = 0
    /\ InitEmpty

Finished(r) == r.pc \in {"idle", "done"}

Quiescent == \A s \in Slots : Finished(reqs[s])

StartReq ==
    /\ nreq < MaxConcRequests
    /\ \E s \in Slots, r \in ConcRequests(World) :
        /\ Finished(reqs[s])
        /\ s = "r1" \/ reqs["r1"].pc # "idle"
        /\ reqs' = [reqs EXCEPT ![s] = r]
    /\ nreq' = nreq + 1
    /\ UNCHANGED <<tables, found>>

StepReq ==
    \E s \in Slots :
        /\ ~Finished(reqs[s])
        /\ SetWorld(Step(World, reqs[s]).w)
        /\ reqs' = [reqs EXCEPT ![s] = Step(World, reqs[s]).r]
        /\ UNCHANGED <<nreq, found>>

NextConc ==
    \/ StartReq
    \/ StepReq

SpecConc == InitConc /\ [][NextConc]_vars

(***************************************************************************)
(* The environment: time passes, and the database may refuse inserts.      *)
(***************************************************************************)
Tick ==
    /\ clock < MaxClock
    /\ clock' = clock + 1
    /\ UNCHANGED <<users, tasks, activities, credits, projects, boards, badges,
                   userBadges, taskComments, faults, reqs, nreq, found>>

\* From here on the inserts into one table throw.
FailWrites(table) ==
    /\ table \notin faults
    /\ faults' = faults \cup {table}
    /\ UNCHANGED <<users, tasks, activities, credits, projects, boards, badges,
                   userBadges, taskComments, clock, reqs, nreq, found>>

RestoreWrites ==
    /\ faults # {}
    /\ faults' = {}
    /\ UNCHANGED <<users, tasks, activities, credits, projects, boards, badges,
                   userBadges, taskComments, clock, reqs, nreq, found>>

(***************************************************************************)
(* SpecFault: the task requests of Spec that log an activity, one at a     *)
(* time, while the insert into activities may fail.                        *)
(***************************************************************************)
FailActivityWrites == FailWrites("activities")

NextFault ==
    \/ CreateTaskReq
    \/ TransitionReq
    \/ LabelsReq
    \/ DeleteTaskReq
    \/ FailActivityWrites
    \/ RestoreWrites

SpecFault == Init /\ [][NextFault]_vars

(***************************************************************************)
(* SpecProj: projects and boards.  Both users are registered and act; the  *)
(* clock advances between statements or stays (two writes may carry the    *)
(* same timestamp); the insert into boards may fail.                       *)
(***************************************************************************)
BoardNameInputs == {"Sprint"}

\* The id spaces are exhausted when ProjectIds or BoardIds is.
ProjectRequests(w) ==
    (IF ProjectIds \ DOMAIN w.projects = {} \/ BoardIds \ DOMAIN w.boards = {}
     THEN {}
     ELSE {NewReq(w, "createProject", actor, NextProjectId(w),
                  v @@ [ownerId |-> actor]) :
             actor \in UserIds, v \in Field("visibility", projectVisibilityEnum)})
    \cup {NewReq(w, "updateProject", actor, id, v) :
        actor \in UserIds, id \in ProjectIds,
        v \in Field("visibility", projectVisibilityEnum)}
    \cup {NewReq(w, "deleteProject", actor, id, EmptyBody) :
        actor \in UserIds, id \in ProjectIds}
    \cup (IF BoardIds \ DOMAIN w.boards = {}
          THEN {}
          ELSE {NewReq(w, "createBoard", actor, id, [name |-> n]) :
                  actor \in UserIds, id \in ProjectIds, n \in BoardNameInputs})

InitProj ==
    /\ users = [u \in UserIds |-> IF u \in Actors THEN SeedAdmin ELSE NewUser]
    /\ tasks = [t \in {} |-> TaskDefaults(t)]
    /\ activities = EmptyBag
    /\ credits = EmptyBag
    /\ reqs = [s \in Slots |-> Idle]
    /\ nreq = 0
    /\ InitEmpty

CreateProjectReq ==
    \E r \in ProjectRequests(World) : r.kind = "createProject" /\ Handle(r)

UpdateProjectReq ==
    \E r \in ProjectRequests(World) : r.kind = "updateProject" /\ Handle(r)

DeleteProjectReq ==
    \E r \in ProjectRequests(World) : r.kind = "deleteProject" /\ Handle(r)

CreateBoardReq ==
    \E r \in ProjectRequests(World) : r.kind = "createBoard" /\ Handle(r)

\* GET /api/projects: the handler answers with the rows getProjects returns.
GetProjectsReq ==
    \E userId \in UserIds :
        /\ found' \in getProjects(World, userId)
        /\ UNCHANGED <<tables, reqs, nreq>>

FailBoardWrites == FailWrites("boards")

NextProj ==
    \/ CreateProjectReq
    \/ UpdateProjectReq
    \/ DeleteProjectReq
    \/ CreateBoardReq
    \/ GetProjectsReq
    \/ Tick
    \/ FailBoardWrites
    \/ RestoreWrites

SpecProj == InitProj /\ [][NextProj]_vars

(***************************************************************************)
(* SpecBoard: tasks on boards.  The task rows carry their board column;    *)
(* tasks are created on any board id, existing or not, and moved with the  *)
(* generic update, while projects and boards are created and deleted.      *)
(***************************************************************************)
BoardTaskRequests(w) ==
    (IF TaskIds \ DOMAIN w.tasks = {}
     THEN {}
     ELSE {NewReq(w, "create", actor, NextTaskId(w),
                  [boardId |-> b, reporterId |-> actor]) :
             actor \in Actors, b \in BoardIds})
    \cup {NewReq(w, "update", actor, id, [boardId |-> b]) :
        actor \in Actors, id \in TaskIds, b \in BoardIds}

CreateBoardTaskReq ==
    \E r \in BoardTaskRequests(World) : r.kind = "create" /\ Handle(r)

MoveTaskReq ==
    \E r \in BoardTaskRequests(World) : r.kind = "update" /\ Handle(r)

NextBoard ==
    \/ CreateProjectReq
    \/ DeleteProjectReq
    \/ CreateBoardReq
    \/ CreateBoardTaskReq
    \/ MoveTaskReq

SpecBoard == InitProj /\ [][NextBoard]_vars

(***************************************************************************)
(* SpecDep: task dependencies.  Users register, tasks are created, and     *)
(* dependencies are requested between any two task ids.                    *)
(***************************************************************************)
DependencyRequests(w) ==
    {NewReq(w, "createDependency", actor, id, b) :
        actor \in Actors, id \in TaskIds, b \in Field("dependsOnTaskId", TaskIds)}

CreateDependencyReq ==
    \E r \in DependencyRequests(World) :
        r.kind = "createDependency" /\ Handle(r)

\* GET /api/tasks/:id/dependencies.
GetDependenciesReq ==
    \E id \in TaskIds :
        /\ found' = getTaskDependencies(World, id)
        /\ UNCHANGED <<tables, reqs, nreq>>

NextDep ==
    \/ UpsertUser
    \/ CreateTaskReq
    \/ CreateDependencyReq
    \/ GetDependenciesReq

SpecDep == Init /\ [][NextDep]_vars

(***************************************************************************)
(* SpecBadge: badges.  Both users are registered; the administrator        *)
(* creates badges and awards them; updateBadge and deleteBadge are calls   *)
(* of the storage interface (no route reaches them).                       *)
(***************************************************************************)
BadgeRequests(w) ==
    (IF BadgeIds \ DOMAIN w.badges = {}
     THEN {}
     ELSE {NewReq(w, "createBadge", actor, NextBadgeId(w), [name |-> n]) :
             actor \in Actors, n \in BadgeNameInputs})
    \cup {NewReq(w, "awardBadge", actor, u, [badgeId |-> b]) :
        actor \in Actors, u \in UserIds, b \in BadgeIds}

CreateBadgeReq ==
    \E r \in BadgeRequests(World) : r.kind = "createBadge" /\ Handle(r)

AwardBadgeReq ==
    \E r \in BadgeRequests(World) : r.kind = "awardBadge" /\ Handle(r)

UpdateBadge ==
    \E id \in BadgeIds,
       body \in {[name |-> n] : n \in BadgeNameInputs} \cup {[isActive |-> TRUE]} :
        /\ SetWorld(updateBadge(World, id, body))
        /\ UNCHANGED <<reqs, nreq, found>>

DeleteBadge ==
    \E id \in BadgeIds :
        /\ SetWorld(deleteBadge(World, id))
        /\ UNCHANGED <<reqs, nreq, found>>

NextBadge ==
    \/ CreateBadgeReq
    \/ AwardBadgeReq
    \/ UpdateBadge
    \/ DeleteBadge

SpecBadge == InitProj /\ [][NextBadge]_vars

(***************************************************************************)
(* SpecReward: badges with a points threshold next to tasks that are       *)
(* created, assigned and completed.                                        *)
(***************************************************************************)
PointsRequiredInputs == {DefaultRewardPoints}

RewardBadgeRequests(w) ==
    (IF BadgeIds \ DOMAIN w.badges = {}
     THEN {}
     ELSE {NewReq(w, "createBadge", actor, NextBadgeId(w),
                  [name |-> n, pointsRequired |-> Some(p)]) :
             actor \in Actors, n \in {"Gold"}, p \in PointsRequiredInputs})
    \cup {NewReq(w, "awardBadge", actor, u, [badgeId |-> b]) :
        actor \in Actors, u \in UserIds, b \in BadgeIds}

CreateRewardBadgeReq ==
    \E r \in RewardBadgeRequests(World) : r.kind = "createBadge" /\ Handle(r)

AwardRewardBadgeReq ==
    \E r \in RewardBadgeRequests(World) : r.kind = "awardBadge" /\ Handle(r)

NextReward ==
    \/ CreateRewardBadgeReq
    \/ AwardRewardBadgeReq
    \/ CreateTaskReq
    \/ TransitionReq
    \/ AssignReq

SpecReward == InitProj /\ [][NextReward]_vars

(***************************************************************************)
(* SpecSigned: tasks whose rewardPoints is any integer the server's schema  *)
(* accepts, a negative one included.                                       *)
(***************************************************************************)
SignedRewardInputs == {-50, 50}

SignedRewardRequests(w) ==
    IF TaskIds \ DOMAIN w.tasks = {}
    THEN {}
    ELSE {NewReq(w, "create", actor, NextTaskId(w),
                 a @@ [rewardPoints |-> p, reporterId |-> actor]) :
            actor \in Actors, a \in Field("assigneeId", UserIds),
            p \in SignedRewardInputs}

CreateSignedTaskReq ==
    \E r \in SignedRewardRequests(World) : r.kind = "create" /\ Handle(r)

NextSigned ==
    \/ UpsertUser
    \/ CreateSignedTaskReq
    \/ TransitionReq
    \/ AssignReq

SpecSigned == Init /\ [][NextSigned]_vars

(***************************************************************************)
(* SpecRole: the role update asked by any user, an administrator or not,   *)
(* registered or not, next to the operations that write users, badges and  *)
(* points.                                                                 *)
(***************************************************************************)
RoleRequests(w) ==
    {NewReq(w, "role", actor, u, [role |-> role]) :
        actor \in UserIds, u \in UserIds, role \in RoleInputs}

RoleReq == \E r \in RoleRequests(World) : r.kind = "role" /\ Handle(r)

NextRole ==
    \/ UpsertUser
    \/ RoleReq
    \/ CreateTaskReq
    \/ TransitionReq
    \/ CreateRewardBadgeReq
    \/ AwardRewardBadgeReq

SpecRole == Init /\ [][NextRole]_vars

(***************************************************************************)
(* SpecSearch: the task search over a database with two projects, each     *)
(* with its Main Board, and two tasks (the first assigned, the second      *)
(* not) whose board, title, description, status and time of last update    *)
(* are drawn from small sets.                                              *)
(***************************************************************************)
TitleInputs == {<<"a">>, <<"a", "b">>}
DescriptionInputs == {None, Some(<<"b">>)}
QueryInputs == {<<"a">>, <<"_">>}
LimitInputs == {1}
OffsetInputs == {0, 1}
DefaultLimit == 50

SearchRows(id) ==
    {TaskDefaults(id) @@
       [boardId |-> b, title |-> t, description |-> d, priority |-> "medium",
        type |-> "task", updatedAt |-> u]
       : b \in {"b1", "b2"}, t \in TitleInputs, d \in DescriptionInputs,
         u \in 1..MaxClock}

\* GET /api/tasks/search: every filter is optional; limit and offset have
\* defaults.
SearchParams ==
    {q @@ a @@ r @@ st @@ pr @@ ty @@ pj @@ [limit |-> l, offset |-> o] :
        q \in Field("query", QueryInputs),
        a \in Field("assigneeId", {"u1"}),
        r \in Field("reporterId", {"u2"}),
        st \in Field("status", {"done"}),
        pr \in Field("priority", {"medium"}),
        ty \in Field("type", {"bug"}),
        pj \in Field("projectId", {"p1"}),
        l \in LimitInputs \cup {DefaultLimit},
        o \in OffsetInputs}

InitSearch ==
    /\ users = [u \in UserIds |-> IF u \in Actors THEN SeedAdmin ELSE NewUser]
    /\ projects = [p \in ProjectIds |->
                     [ProjectDefaults([clock |-> 0], p) EXCEPT !.ownerId = "u1"]]
    /\ boards = [b \in {"b1", "b2"} |->
                   [BoardDefaults(b) EXCEPT
                       !.name = MainBoard,
                       !.projectId = IF b = "b1" THEN "p1" ELSE "p2"]]
    /\ \E rows \in [TaskIds -> UNION {SearchRows(t) : t \in TaskIds}],
          st \in [TaskIds -> {"todo", "done"}] :
          /\ \A t \in TaskIds : rows[t].id = t
          /\ tasks = [t \in TaskIds |->
                        [rows[t] EXCEPT !.status = st[t],
                                        !.assigneeId = IF t = 1 THEN "u1" ELSE NULL,
                                        !.reporterId = "u1"]]
    /\ activities =
          SetToBag({Activity("u1", "task_created", t, EmptyBody) : t \in TaskIds})
    /\ credits = EmptyBag
    /\ badges = [b \in {} |-> NULL]
    /\ userBadges = EmptyBag
    /\ taskComments = [c \in {} |-> NULL]
    /\ clock = MaxClock
    /\ faults = {}
    /\ found = <<>>
    /\ reqs = [s \in Slots |-> Idle]
    /\ nreq = 0

SearchTasksReq ==
    /\ nreq < MaxSearches
    /\ \E params \in SearchParams : found' \in searchTasks(World, params)
    /\ nreq' = nreq + 1
    /\ UNCHANGED <<tables, reqs>>

NextSearch == SearchTasksReq

SpecSearch == InitSearch /\ [][NextSearch]_vars

(***************************************************************************)
(* SpecComment: comments on a task.  Both users are registered and act;    *)
(* task 1 exists (created by u1).                                          *)
(***************************************************************************)
CommentRequests(w) ==
    (IF CommentIds \ DOMAIN w.taskComments = {}
     THEN {}
     ELSE {NewReq(w, "createComment", actor, NextCommentId(w),
                  [taskId |-> t, content |-> c]) :
             actor \in UserIds, t \in TaskIds, c \in ContentInputs})
    \cup {NewReq(w, "editComment", actor, id, [content |-> c]) :
        actor \in UserIds, id \in CommentIds, c \in ContentInputs}
    \cup {NewReq(w, "deleteComment", actor, id, EmptyBody) :
        actor \in UserIds, id \in CommentIds}

InitComment ==
    /\ users = [u \in UserIds |-> IF u \in Actors THEN SeedAdmin ELSE NewUser]
    /\ tasks = (1 :> SeedTask(1, NULL))
    /\ activities = SetToBag({Activity("u1", "task_created", 1, EmptyBody)})
    /\ credits = EmptyBag
    /\ reqs = [s \in Slots |-> Idle]
    /\ nreq = 0
    /\ InitEmpty

CreateCommentReq ==
    \E r \in CommentRequests(World) : r.kind = "createComment" /\ Handle(r)

EditCommentReq ==
    \E r \in CommentRequests(World) : r.kind = "editComment" /\ Handle(r)

DeleteCommentReq ==
    \E r \in CommentRequests(World) : r.kind = "deleteComment" /\ Handle(r)

NextComment ==
    \/ CreateCommentReq
    \/ EditCommentReq
    \/ DeleteCommentReq

SpecComment == InitComment /\ [][NextComment]_vars

(***************************************************************************)
(* Vocabulary of the properties                                            *)
(***************************************************************************)
\* The part of a bag whose elements satisfy P.
Restrict(bag, P(_)) == [e \in {x \in BagToSet(bag) : P(x)} |-> bag[e]]

\* How many times the reward of task t was written into a user's points.
CreditCount(t) ==
    BagCardinality(Restrict(credits, LAMBDA c : c.taskId = t))

CreditCountFor(t, u) ==
    BagCardinality(Restrict(credits, LAMBDA c : c.taskId = t /\ c.userId = u))

\* The task_completed rows of an activity table.
Completed(acts) == Restrict(acts, LAMBDA a : a.type = "task_completed")

CompletedCountFor(t, u) ==
    BagCardinality(Restrict(activities,
        LAMBDA a : a.type = "task_completed" /\ a.taskId = t /\ a.userId = u))

\* A request that asks for status done, by either route.
IsCompletion(r) ==
    /\ r.kind \in {"transition", "update"}
    /\ Has(r.body, "status")
    /\ r.body.status = "done"

\* A finished completion request whose task was not done, and assigned,
\* when the request began.
CompletedOpenTask(r) ==
    /\ r.pc = "done"
    /\ IsCompletion(r)
    /\ IsSome(r.startTask)
    /\ Val(r.startTask).status # "done"
    /\ Val(r.startTask).assigneeId # NULL

\* text contains query as a run of consecutive characters.
Contains(text, query) ==
    \E i \in 0..(Len(text) - Len(query)) :
        SubSeq(text, i + 1, i + Len(query)) = query

\* A task row satisfies every filter the parameters supply: the text filter
\* as a substring of the title or of the description, the others as
\* equalities, projectId through the task's board.
Satisfies(row, params) ==
    /\ Has(params, "query")
         => \/ Contains(row.title, params.query)
            \/ IsSome(row.description) /\ Contains(Val(row.description), params.query)
    /\ \A f \in EqFilters : Has(params, f) => row[f] = params[f]
    /\ Has(params, "projectId") => boards[row.boardId].projectId = params.projectId

(***************************************************************************)
(* C1                                                                      *)
(***************************************************************************)
\* C1: when exactly two completion requests, for two different non-done
\* tasks assigned to the same user U, have both finished, U's points are the
\* initial points plus both rewards, under every interleaving.
C1_NoLostAward ==
    \A a, b \in Slots :
        (/\ a # b
         /\ nreq = 2
         /\ CompletedOpenTask(reqs[a])
         /\ CompletedOpenTask(reqs[b])
         /\ reqs[a].id # reqs[b].id
         /\ Val(reqs[a].startTask).assigneeId = Val(reqs[b].startTask).assigneeId)
        => users[Val(reqs[a].startTask).assigneeId].points
             = NewUser.points + Val(reqs[a].startTask).rewardPoints
                              + Val(reqs[b].startTask).rewardPoints

(***************************************************************************)
(* C2                                                                      *)
(***************************************************************************)
\* C2 as stated: a request that moves task T, assigned to A with reward R
\* before the request, from a non-done status to done adds exactly R to A's
\* points and changes no other user's points.
C2_AwardToPriorAssignee ==
    [][\A t \in DOMAIN tasks :
        (/\ tasks[t].status # "done"
         /\ tasks'[t].status = "done"
         /\ tasks[t].assigneeId # NULL)
        => /\ users'[tasks[t].assigneeId].points
                = users[tasks[t].assigneeId].points + tasks[t].rewardPoints
           /\ \A u \in DOMAIN users \ {tasks[t].assigneeId} :
                users'[u].points = users[u].points]_vars

\* C2 as amended: a request that moves task T from a non-done status to done
\* adds exactly R to A's points, where A and R are the assignee and the
\* rewardPoints of T's row as the request leaves it, and changes no other
\* user's points; when that row has no assignee no user's points change.
C2_AwardToStoredAssignee ==
    [][\A t \in DOMAIN tasks :
        (tasks[t].status # "done" /\ tasks'[t].status = "done")
        => IF tasks'[t].assigneeId = NULL
           THEN \A u \in DOMAIN users : users'[u].points = users[u].points
           ELSE /\ users'[tasks'[t].assigneeId].points
                     = users[tasks'[t].assigneeId].points + tasks'[t].rewardPoints
                /\ \A u \in DOMAIN users \ {tasks'[t].assigneeId} :
                     users'[u].points = users[u].points]_vars

\* A task is done, its reward was credited once, and its assignee holds it.
C2_Witness ==
    \E t \in DOMAIN tasks :
        /\ tasks[t].status = "done"
        /\ tasks[t].assigneeId # NULL
        /\ CreditCountFor(t, tasks[t].assigneeId) = 1
        /\ users[tasks[t].assigneeId].points = tasks[t].rewardPoints

(***************************************************************************)
(* C3                                                                      *)
(***************************************************************************)
\* C3: a completion request (generic update or transition with status done)
\* on a task that is already done leaves every user's points and level as
\* they were and adds no task_completed activity.
C3_ReapplyNoAward ==
    \A r \in Requests(World) :
        (IsCompletion(r) /\ r.id \in DOMAIN tasks /\ tasks[r.id].status = "done")
        => /\ Run(World, r).w.users = users
           /\ Completed(Run(World, r).w.activities) = Completed(activities)

\* A transition from done to done has been logged for a task that was
\* credited once.
C3_Witness ==
    \E a \in BagToSet(activities) :
        /\ a.type = "status_changed"
        /\ a.metadata.oldStatus = "done"
        /\ a.metadata.newStatus = "done"
        /\ CreditCount(a.taskId) = 1

(***************************************************************************)
(* C4                                                                      *)
(***************************************************************************)
\* C4: when exactly two completion requests for the same non-done task T
\* (assignee A, reward R) have both finished, A was credited R once: A's
\* points are the initial points plus R.
C4_CreditedOncePerTask ==
    \A a, b \in Slots :
        (/\ a # b
         /\ nreq = 2
         /\ CompletedOpenTask(reqs[a])
         /\ CompletedOpenTask(reqs[b])
         /\ reqs[a].id = reqs[b].id)
        => /\ CreditCount(reqs[a].id) = 1
           /\ users[Val(reqs[a].startTask).assigneeId].points
                = NewUser.points + Val(reqs[a].startTask).rewardPoints

(***************************************************************************)
(* C5                                                                      *)
(***************************************************************************)
\* C5: over any sequence of requests, the reward of a task is credited at
\* most once.
C5_CreditedAtMostOnce == \A t \in TaskIds : CreditCount(t) <= 1

(***************************************************************************)
(* C6                                                                      *)
(***************************************************************************)
\* C6: no request changes the rewardPoints of an existing task.
C6_RewardFixed ==
    [][\A t \in DOMAIN tasks :
        tasks'[t].rewardPoints = tasks[t].rewardPoints]_vars

(***************************************************************************)
(* C7                                                                      *)
(***************************************************************************)
\* C7: every user's level is floor(points / 100) + 1.
C7_LevelFromPoints ==
    \A u \in DOMAIN users : users[u].level = (users[u].points \div 100) + 1

\* A user has been awarded into the second level.
C7_Witness ==
    \E u \in DOMAIN users : users[u].points >= 100 /\ users[u].level = 2

(***************************************************************************)
(* C8                                                                      *)
(***************************************************************************)
\* C8: from the same state, the generic update with only {status: s} and the
\* transition to s leave the same tasks, the same users and the same
\* task_completed activities.
C8_SameAwardLogic ==
    \A actor \in Actors, id \in TaskIds, s \in taskStatusEnum :
        LET viaUpdate ==
                Run(World, NewReq(World, "update", actor, id, [status |-> s])).w
            viaTransition ==
                Run(World, NewReq(World, "transition", actor, id, [status |-> s])).w
        IN /\ viaUpdate.tasks = viaTransition.tasks
           /\ viaUpdate.users = viaTransition.users
           /\ Completed(viaUpdate.activities) = Completed(viaTransition.activities)

\* One task was completed by a transition (it has a status_changed row) and
\* another by the generic update (it has none); both were credited once.
C8_Witness ==
    \E t1, t2 \in DOMAIN tasks :
        /\ t1 # t2
        /\ CreditCount(t1) = 1
        /\ CreditCount(t2) = 1
        /\ \E a \in BagToSet(activities) :
              a.type = "status_changed" /\ a.taskId = t1
        /\ \A a \in BagToSet(activities) :
              a.taskId = t2 => a.type # "status_changed"

(***************************************************************************)
(* C9                                                                      *)
(***************************************************************************)
\* C9: a request that changes a task row, or creates one, appends exactly
\* one activity, and that activity carries the acting user's id.
C9_OneActivityPerMutation ==
    [][tasks' # tasks
        => \E a \in BagToSet(activities') :
              /\ activities' = activities (+) SetToBag({a})
              /\ a.userId \in Actors]_vars

(***************************************************************************)
(* C10                                                                     *)
(***************************************************************************)
\* C10: when no request is running, for every task T and user U the number
\* of task_completed activities of (T, U) is the number of times T's reward
\* was credited to U.
C10_CompletedMatchesCredits ==
    Quiescent =>
        \A t \in TaskIds, u \in UserIds :
            CompletedCountFor(t, u) = CreditCountFor(t, u)

\* Both requests have finished and a reward was credited and logged.
C10_Witness ==
    /\ Quiescent
    /\ nreq = 2
    /\ \E t \in TaskIds, u \in UserIds :
          CreditCountFor(t, u) >= 1 /\ CompletedCountFor(t, u) >= 1

(***************************************************************************)
(* C11                                                                     *)
(***************************************************************************)
\* C11: a step that leaves a new project behind leaves exactly one board
\* for it, named "Main Board" and carrying the default four columns todo,
\* in_progress, review, done in that order.
C11_ProjectHasMainBoard ==
    [][\A p \in DOMAIN projects' \ DOMAIN projects :
        \E b \in DOMAIN boards' :
            /\ {c \in DOMAIN boards' : boards'[c].projectId = p} = {b}
            /\ boards'[b].name = MainBoard
            /\ boards'[b].columns = DefaultColumns]_vars

(***************************************************************************)
(* C12                                                                     *)
(***************************************************************************)
\* C12: a delete request for an existing task that activity records
\* reference succeeds: it answers 200, the task is gone afterwards, and the
\* activity log is as it was.
C12_DeleteReferenced ==
    \A r \in Requests(World) :
        (/\ r.kind = "deleteTask"
         /\ r.id \in DOMAIN tasks
         /\ \E a \in BagToSet(activities) : Has(a, "taskId") /\ a.taskId = r.id)
        => /\ Run(World, r).r.code = HttpOk
           /\ r.id \notin DOMAIN Run(World, r).w.tasks
           /\ Run(World, r).w.activities = activities

(***************************************************************************)
(* C13                                                                     *)
(***************************************************************************)
\* C13: the activity log is append-only: every step keeps every activity
\* record it found, as many times as it found it.
C13_AppendOnly ==
    [][\A a \in BagToSet(activities) :
        /\ a \in BagToSet(activities')
        /\ CopiesIn(a, activities') >= CopiesIn(a, activities)]_vars

\* The log holds rows of three requests, among them a completion, and the
\* request budget is spent (a delete or an update may have followed them).
C13_Witness ==
    /\ BagCardinality(activities) >= 3
    /\ \E a \in BagToSet(activities) : a.type = "task_completed"
    /\ nreq = MaxRequests

(***************************************************************************)
(* C14                                                                     *)
(***************************************************************************)
\* C14: a transition or labels request on an existing task whose activity
\* write fails still answers 200, and the task carries the requested
\* status or labels afterwards.
C14_MutationSucceedsWithoutLog ==
    \A r \in Requests(World) :
        (/\ r.kind \in {"transition", "labels"}
         /\ r.id \in DOMAIN tasks
         /\ "activities" \in faults)
        => /\ Run(World, r).r.code = HttpOk
           /\ r.kind = "transition"
                => Run(World, r).w.tasks[r.id].status = r.body.status
           /\ r.kind = "labels"
                => Run(World, r).w.tasks[r.id].labels = r.body.labels

(***************************************************************************)
(* C15                                                                     *)
(***************************************************************************)
\* C15: deleteBadge on an existing badge keeps the row with isActive false
\* and everything else as it was: afterwards getBadges() has no row of the
\* badge, getBadge(id) returns it, the user_badges table is unchanged, and
\* getUserBadges returns every award of the badge a user had.
C15_DeactivateKeepsAwards ==
    \A id \in DOMAIN badges :
        LET after == deleteBadge(World, id)
        IN /\ \A row \in getBadges(after) : row.id # id
           /\ getBadge(after, id) = Some([badges[id] EXCEPT !.isActive = FALSE])
           /\ after.userBadges = userBadges
           /\ \A u \in UserIds :
                \A j \in BagToSet(getUserBadges(World, u)) :
                    j.badgeId = id
                    => CopiesIn([j EXCEPT !.badge.isActive = FALSE],
                                getUserBadges(after, u))
                         = CopiesIn(UserBadge(u, id), userBadges)

\* A badge that was awarded has been deactivated, and its award is still
\* among its user's badges.
C15_Witness ==
    \E id \in DOMAIN badges, u \in UserIds :
        /\ ~badges[id].isActive
        /\ CopiesIn(UserBadge(u, id), userBadges) >= 1
        /\ \E j \in BagToSet(getUserBadges(World, u)) : j.badgeId = id

(***************************************************************************)
(* C16                                                                     *)
(***************************************************************************)
\* C16: every answer of getProjects(userId) holds exactly the projects owned
\* by userId or public, so no private project of another owner, each project
\* once, in descending order of updatedAt.
C16_GetProjects ==
    \A userId \in UserIds :
        /\ getProjects(World, userId) # {}
        /\ \A s \in getProjects(World, userId) :
            /\ {s[i].id : i \in DOMAIN s}
                 = {p \in DOMAIN projects :
                      projects[p].ownerId = userId \/ projects[p].visibility = "public"}
            /\ \A i \in DOMAIN s :
                 /\ s[i] = projects[s[i].id]
                 /\ ~(s[i].visibility = "private" /\ s[i].ownerId # userId)
            /\ \A i, j \in DOMAIN s : i # j => s[i].id # s[j].id
            /\ \A i, j \in DOMAIN s : i < j => s[i].updatedAt >= s[j].updatedAt

\* The last answer is current for a user who sees a public project of
\* another owner while a private project of another owner exists.
C16_Witness ==
    \E userId \in UserIds :
        /\ found \in getProjects(World, userId)
        /\ \E i \in DOMAIN found : found[i].ownerId # userId
        /\ \E p \in DOMAIN projects :
              projects[p].ownerId # userId /\ projects[p].visibility = "private"

(***************************************************************************)
(* C17                                                                     *)
(***************************************************************************)
\* C17: every task in every answer of searchTasks with projectId = P lies
\* on a board of project P, whatever the other filters, limit and offset.
C17_ProjectScoped ==
    \A params \in SearchParams :
        Has(params, "projectId")
        => \A page \in searchTasks(World, params) :
             \A i \in DOMAIN page :
                boards[page[i].boardId].projectId = params.projectId

\* A search scoped to a project has answered with a task, while a task on a
\* board of the other project meets all its other filters.
C17_Witness ==
    /\ nreq = 1
    /\ found # <<>>
    /\ \E params \in SearchParams :
          /\ Has(params, "projectId")
          /\ Has(params, "query")
          /\ found \in searchTasks(World, params)
          /\ \E t \in DOMAIN tasks :
                /\ boards[tasks[t].boardId].projectId # params.projectId
                /\ Conditions(tasks[t], params)

(***************************************************************************)
(* C18                                                                     *)
(***************************************************************************)
\* C18: every answer of searchTasks is the slice [offset, offset + limit) of
\* the tasks that satisfy every supplied filter, arranged in descending
\* order of updatedAt; so every returned task satisfies every supplied
\* filter.
C18_ConjunctiveFilters ==
    \A params \in SearchParams :
        \A page \in searchTasks(World, params) :
            /\ \A i \in DOMAIN page : Satisfies(page[i], params)
            /\ \E s \in OrderByUpdatedAtDesc(
                         {tasks[t] : t \in {u \in DOMAIN tasks :
                                              Satisfies(tasks[u], params)}}) :
                  page = Page(s, params.limit, params.offset)

(***************************************************************************)
(* C19                                                                     *)
(***************************************************************************)
\* C19: no request changes the reporterId of an existing task.
C19_ReporterFixed ==
    [][\A t \in DOMAIN tasks \cap DOMAIN tasks' :
        tasks'[t].reporterId = tasks[t].reporterId]_vars

(***************************************************************************)
(* C20                                                                     *)
(***************************************************************************)
\* C20: an edit or delete request for a comment of another user is answered
\* 403 and one for a comment id that does not exist 404; either leaves the
\* database, the comments among it, as it was.
C20_AuthorOnly ==
    \A r \in CommentRequests(World) :
        r.kind \in {"editComment", "deleteComment"}
        => /\ r.id \notin DOMAIN taskComments
                => /\ Run(World, r).r.code = HttpNotFound
                   /\ Run(World, r).w = World
           /\ (r.id \in DOMAIN taskComments /\ taskComments[r.id].userId # r.actor)
                => /\ Run(World, r).r.code = HttpForbidden
                   /\ Run(World, r).w.taskComments = taskComments
                   /\ Run(World, r).w = World

\* After the request budget is spent a comment of one user stands, and the
\* other user's edit of it is answered 403.
C20_Witness ==
    /\ nreq = MaxRequests
    /\ \E c \in DOMAIN taskComments, actor \in UserIds :
          /\ taskComments[c].userId # actor
          /\ Run(World, NewReq(World, "editComment", actor, c,
                                [content |-> "second"])).r.code = HttpForbidden

(***************************************************************************)
(* C21                                                                     *)
(***************************************************************************)
\* C21: a generic update, assign, labels or transition request for a task
\* id that does not exist is answered with not-found (404) and leaves the
\* database as it was.
C21_MissingTaskNotFound ==
    \A r \in Requests(World) :
        (r.kind \in {"update", "assign", "labels", "transition"}
         /\ r.id \notin DOMAIN tasks)
        => /\ Run(World, r).r.code = HttpNotFound
           /\ Run(World, r).w = World

(***************************************************************************)
(* C22                                                                     *)
(***************************************************************************)
\* C22: a task creation on a board id that does not exist answers with an
\* error, inserts no task and writes no activity; and in every reachable
\* state every task's boardId is the id of a board and every board's
\* projectId the id of a project.
C22_BoardsExist ==
    /\ \A t \in DOMAIN tasks : tasks[t].boardId \in DOMAIN boards
    /\ \A b \in DOMAIN boards : boards[b].projectId \in DOMAIN projects
    /\ \A r \in BoardTaskRequests(World) :
          (r.kind = "create" /\ r.body.boardId \notin DOMAIN boards)
          => /\ Run(World, r).r.code = HttpServerError
             /\ Run(World, r).w = World

\* A task stands on a board, and a creation on a missing board is refused.
C22_Witness ==
    /\ DOMAIN tasks # {}
    /\ \E r \in BoardTaskRequests(World) :
          /\ r.kind = "create"
          /\ r.body.boardId \notin DOMAIN boards
          /\ Run(World, r).r.code = HttpServerError

(***************************************************************************)
(* C23                                                                     *)
(***************************************************************************)
\* C23: a dependency request between two existing tasks (the same task
\* twice included) succeeds, and afterwards getTaskDependencies of the
\* first task has an entry with the second task as dependsOnTaskId.
C23_DependencyRecorded ==
    \A r \in DependencyRequests(World) :
        (/\ r.id \in DOMAIN tasks
         /\ Has(r.body, "dependsOnTaskId")
         /\ r.body.dependsOnTaskId \in DOMAIN tasks)
        => /\ Run(World, r).r.code = HttpOk
           /\ \E d \in getTaskDependencies(Run(World, r).w, r.id) :
                 d.dependsOnTaskId = r.body.dependsOnTaskId

(***************************************************************************)
(* C24                                                                     *)
(***************************************************************************)
\* C24: for every status s of an existing task and every status s' of the
\* enumeration (backward moves, skips and s' = s included), the transition
\* request to s' succeeds and leaves the task in status s'.
C24_FreeTransitions ==
    \A r \in Requests(World) :
        (r.kind = "transition" /\ r.id \in DOMAIN tasks)
        => /\ Run(World, r).r.code = HttpOk
           /\ Run(World, r).w.tasks[r.id].status = r.body.status

\* A task has been moved to its own status, from todo straight to done, and
\* from done back to todo.
C24_Witness ==
    \E t \in DOMAIN tasks :
        /\ tasks[t].status = "todo"
        /\ \A pair \in {<<"todo", "todo">>, <<"todo", "done">>, <<"done", "todo">>} :
              \E a \in BagToSet(activities) :
                  /\ a.type = "status_changed"
                  /\ a.taskId = t
                  /\ a.metadata.oldStatus = pair[1]
                  /\ a.metadata.newStatus = pair[2]

(***************************************************************************)
(* C25                                                                     *)
(***************************************************************************)
\* C25: no task request (creation, update, transition, assignment, labels),
\* whatever the points of the users and the pointsRequired of the badges,
\* adds or removes a row of userBadges; and the award of a badge changes no
\* user's points or level.
C25_BadgesOnlyByAward ==
    /\ \A r \in Requests(World) :
          r.kind \in {"create", "update", "transition", "assign", "labels"}
          => Run(World, r).w.userBadges = userBadges
    /\ \A r \in RewardBadgeRequests(World) :
          r.kind = "awardBadge"
          => \A u \in DOMAIN users :
                /\ Run(World, r).w.users[u].points = users[u].points
                /\ Run(World, r).w.users[u].level = users[u].level

\* A user has been credited up to a badge's threshold and holds no badge,
\* while a badge has been awarded to a user whose points are below it.
C25_Witness ==
    \E b \in DOMAIN badges, u \in DOMAIN users, v \in DOMAIN users :
        /\ IsSome(badges[b].pointsRequired)
        /\ \E c \in BagToSet(credits) : c.userId = u
        /\ users[u].points >= Val(badges[b].pointsRequired)
        /\ \A ub \in BagToSet(userBadges) : ub.userId # u
        /\ users[v].points < Val(badges[b].pointsRequired)
        /\ UserBadge(v, b) \in BagToSet(userBadges)

(***************************************************************************)
(* C26                                                                     *)
(***************************************************************************)
\* C26: in every reachable state the points of every user are at least 0,
\* whatever rewardPoints the server accepted for the tasks.
C26_PointsNonNegative ==
    \A u \in DOMAIN users : users[u].points >= 0

(***************************************************************************)
(* C27                                                                     *)
(***************************************************************************)
\* The roles of the users of a world.
Roles(w) == [u \in DOMAIN w.users |-> w.users[u].role]

\* C27: a role update asked by an actor whose stored role is not admin or
\* super_admin (or who is not registered) is answered 403 and leaves every
\* role as it was; one asked by an administrator changes at most the role
\* of the user it names; and no task request, badge request or upsert
\* changes the role of a registered user.
C27_RoleOnlyByAdmin ==
    /\ \A r \in RoleRequests(World) :
          LET out == Run(World, r)
              admin == /\ r.actor \in DOMAIN users
                       /\ users[r.actor].role \in {"admin", "super_admin"}
          IN IF admin
             THEN \A u \in DOMAIN users \ {r.id} :
                      out.w.users[u].role = users[u].role
             ELSE out.r.code = HttpForbidden /\ out.w = World
    /\ \A r \in Requests(World) :
          r.kind # "role" => Roles(Run(World, r).w) = Roles(World)
    /\ \A r \in RewardBadgeRequests(World) :
          Roles(Run(World, r).w) = Roles(World)
    /\ \A id \in UserIds :
          \A u \in DOMAIN users : upsertUser(World, id).users[u].role = users[u].role

\* An administrator has promoted the second user and lost its own role, and
\* its next role update is refused.
C27_Witness ==
    /\ DOMAIN users = UserIds
    /\ users["u2"].role = "admin"
    /\ users["u1"].role = "member"
    /\ \E r \in RoleRequests(World) :
          r.actor = "u1" /\ Run(World, r).r.code = HttpForbidden

(***************************************************************************)
(* C28                                                                     *)
(***************************************************************************)
\* How many times world w records the reward of task t written to user u.
CreditsIn(w, t, u) ==
    BagCardinality(Restrict(w.credits, LAMBDA c : c.taskId = t /\ c.userId = u))

\* C28: a transition request that has moved an assigned task from a status
\* other than done to done has credited the assignee once when it finishes,
\* whether or not the write of the status_changed activity succeeded.
C28_CompletionCredited ==
    \A r \in Requests(World) :
        LET out == Run(World, r)
        IN (/\ r.kind = "transition"
            /\ r.id \in DOMAIN tasks
            /\ tasks[r.id].status # "done"
            /\ tasks[r.id].assigneeId # NULL
            /\ out.w.tasks[r.id].status = "done")
           => CreditsIn(out.w, r.id, tasks[r.id].assigneeId)
                = CreditsIn(World, r.id, tasks[r.id].assigneeId) + 1

====
